---- MODULE Spec2Model ----
(***************************************************************************)
(* Subagent Review Orchestrator (devtools/claude-hooks/SubAgentReviewer).  *)
(*                                                                         *)
(* In Spec and SpecHost one hook process runs at a time; SpecRace adds a    *)
(* second process that handles a start event while the first one runs.     *)
(* The host hands a process one event; the                                 *)
(* process reads and rewrites the session document (session.json), may     *)
(* create directories, may run the external reviewer, prints a block       *)
(* payload or nothing, and exits.  The state is what survives between      *)
(* invocations (the document, the directories, config.json) plus the       *)
(* position and locals of the invocation in flight.                        *)
(*                                                                         *)
(* Strings that take part in directory-name matching (agent ids, agent     *)
(* types) are kept as their sequence of hyphen-delimited segments, so      *)
(* "backend-engineer" is <<"backend", "engineer">>.  Python's None is      *)
(* Null == <<>> and a present value x is Some(x) == <<x>>.                 *)
(***************************************************************************)
EXTENDS Integers, Sequences, FiniteSets, TLC

VARIABLES
    cfg,      \* config.json as loaded by the next invocation
    disk,     \* the session document on disk
    dirs,     \* agent directories on disk: directory -> number of review subdirectories
    clock,    \* number of invocations begun; datetime.now() of the invocation
    pc,       \* position of the hook process
    inp,      \* HookInput of the invocation in flight
    loc,      \* locals of _handle_stop that live across the reviewer call
    result,   \* HookResult of the invocation in flight
    stdout,   \* what the invocation in flight has printed
    obs,      \* observations of the invocation in flight (history variable)
    host,     \* per agent: what the host saw last (history variable)
    peer      \* a second hook process, running a start event at the same time

vars == <<cfg, disk, dirs, clock, pc, inp, loc, result, stdout, obs, host, peer>>

-----------------------------------------------------------------------------
(* Bounds *)

MaxEvents == 3
MaxCycles == 2
MaxCalls == 3
MaxLines == 3
MaxSegments == 2
MaxOps == 4

-----------------------------------------------------------------------------
(* Values *)

Null == <<>>
Some(x) == <<x>>
Get(d, k, default) == IF k \in DOMAIN d THEN d[k] ELSE default

BackendEngineer == <<"backend", "engineer">>
Explore == <<"Explore">>
AgentTypes == {BackendEngineer, Explore}

A1 == <<"a1">>
A2 == <<"b", "a1">>
AgentIds == {A1, A2}

SessionId == "s1"
TranscriptPath == "agent.jsonl"
MainTranscript == "session.jsonl"

ReviewLists == {{}, {BackendEngineer}}

Configs ==
    [agents_to_review : ReviewLists,
     max_review_cycles : 1..MaxCycles,
     skip_if_no_file_changes : BOOLEAN]

-----------------------------------------------------------------------------
(* models/Session.py *)

AgentReview(now) ==
    [started_at |-> now, ended_at |-> Null, decision |-> Null,
     input_tokens |-> 0, output_tokens |-> 0, total_cost_usd |-> Null]

AgentReview_to_dict(r) ==
    [started_at |-> r.started_at, ended_at |-> r.ended_at, decision |-> r.decision,
     input_tokens |-> r.input_tokens, output_tokens |-> r.output_tokens,
     total_cost_usd |-> r.total_cost_usd]

\* a reader that leaves out the end of the review
AgentReview_from_dict_unfinished(d) ==
    [started_at |-> Get(d, "started_at", 0),
     ended_at |-> Null,
     decision |-> Get(d, "decision", Null),
     input_tokens |-> Get(d, "input_tokens", 0),
     output_tokens |-> Get(d, "output_tokens", 0),
     total_cost_usd |-> Get(d, "total_cost_usd", Null)]

AgentReview_from_dict(d) ==
    [started_at |-> Get(d, "started_at", 0),
     ended_at |-> Get(d, "ended_at", Null),
     decision |-> Get(d, "decision", Null),
     input_tokens |-> Get(d, "input_tokens", 0),
     output_tokens |-> Get(d, "output_tokens", 0),
     total_cost_usd |-> Get(d, "total_cost_usd", Null)]

is_completed(r) == r.ended_at # Null

is_in_progress(r) == r.ended_at = Null

TrackedAgent(agent_id, agent_type, started_at) ==
    [agent_id |-> agent_id, agent_type |-> agent_type, started_at |-> started_at,
     ended_at |-> Null, transcript_path |-> Null, reviews |-> <<>>]

TrackedAgent_to_dict(a) ==
    [agent_id |-> a.agent_id, agent_type |-> a.agent_type,
     started_at |-> a.started_at, ended_at |-> a.ended_at,
     transcript_path |-> a.transcript_path,
     reviews |-> [i \in DOMAIN a.reviews |-> AgentReview_to_dict(a.reviews[i])]]

TrackedAgent_from_dict(d) ==
    LET reviews_data == Get(d, "reviews", <<>>)
    IN  [agent_id |-> Get(d, "agent_id", <<>>),
         agent_type |-> Get(d, "agent_type", <<>>),
         started_at |-> Get(d, "started_at", 0),
         ended_at |-> Get(d, "ended_at", Null),
         transcript_path |-> Get(d, "transcript_path", Null),
         reviews |-> [i \in DOMAIN reviews_data |-> AgentReview_from_dict(reviews_data[i])]]

RECURSIVE CountCompleted(_)
CountCompleted(rs) ==
    IF rs = <<>> THEN 0
    ELSE (IF is_completed(Head(rs)) THEN 1 ELSE 0) + CountCompleted(Tail(rs))

\* TrackedAgent.review_count in its place: every review counts
review_count_all(a) == Len(a.reviews)

completed_review_count(a) == CountCompleted(a.reviews)

\* a start of review that records the review twice
start_review_twice(a, now) ==
    [a EXCEPT !.reviews = Append(Append(@, AgentReview(now)), AgentReview(now))]

start_review(a, now) == [a EXCEPT !.reviews = Append(@, AgentReview(now))]

end_review(a, passed, input_tokens, output_tokens, total_cost_usd, now) ==
    IF a.reviews = <<>> THEN a
    ELSE [a EXCEPT !.reviews[Len(a.reviews)] =
            [@ EXCEPT !.ended_at = Some(now),
                      !.decision = Some(passed),
                      !.input_tokens = input_tokens,
                      !.output_tokens = output_tokens,
                      !.total_cost_usd = total_cost_usd]]

Session(session_id, started_at, transcript_path, git_branch, git_commit) ==
    [session_id |-> session_id, started_at |-> started_at,
     transcript_path |-> transcript_path, git_branch |-> git_branch,
     git_commit |-> git_commit, agents |-> <<>>]

Session_to_dict(s) ==
    [session_id |-> s.session_id, started_at |-> s.started_at,
     git_branch |-> s.git_branch, git_commit |-> s.git_commit,
     transcript_path |-> s.transcript_path,
     agents |-> [id \in DOMAIN s.agents |-> TrackedAgent_to_dict(s.agents[id])]]

Session_from_dict(d) ==
    LET agents_data == Get(d, "agents", <<>>)
    IN  [session_id |-> Get(d, "session_id", ""),
         started_at |-> Get(d, "started_at", 0),
         transcript_path |-> Get(d, "transcript_path", ""),
         git_branch |-> Get(d, "git_branch", Null),
         git_commit |-> Get(d, "git_commit", Null),
         agents |-> [id \in DOMAIN agents_data |-> TrackedAgent_from_dict(agents_data[id])]]

Put(agents, id, a) ==
    [x \in DOMAIN agents \cup {id} |-> IF x = id THEN a ELSE agents[x]]

\* registration that replaces a record already present
add_agent_overwrite(s, agent_id, agent_type, now) ==
    [s EXCEPT !.agents = Put(@, agent_id, TrackedAgent(agent_id, agent_type, now))]

add_agent(s, agent_id, agent_type, now) ==
    IF agent_id \in DOMAIN s.agents THEN s
    ELSE [s EXCEPT !.agents = Put(@, agent_id, TrackedAgent(agent_id, agent_type, now))]

\* an end that registers the agent when the session does not hold it
end_agent_upsert(s, agent_id, transcript_path, now) ==
    [s EXCEPT !.agents =
        Put(@, agent_id,
            [(IF agent_id \in DOMAIN @ THEN @[agent_id]
              ELSE TrackedAgent(agent_id, <<"unknown">>, now))
             EXCEPT !.ended_at = Some(now), !.transcript_path = transcript_path])]

\* an end that also takes the end time for the agent's start time
end_agent_restarted(s, agent_id, transcript_path, now) ==
    IF agent_id \notin DOMAIN s.agents THEN s
    ELSE [s EXCEPT !.agents[agent_id] =
            [@ EXCEPT !.started_at = now, !.ended_at = Some(now),
                      !.transcript_path = transcript_path]]

end_agent(s, agent_id, transcript_path, now) ==
    IF agent_id \notin DOMAIN s.agents THEN s
    ELSE [s EXCEPT !.agents[agent_id] =
            [@ EXCEPT !.ended_at = Some(now), !.transcript_path = transcript_path]]

Session_start_agent_review(s, agent_id, now) ==
    IF agent_id \notin DOMAIN s.agents THEN s
    ELSE [s EXCEPT !.agents[agent_id] = start_review(@, now)]

Session_end_agent_review(s, agent_id, passed, input_tokens, output_tokens, total_cost_usd, now) ==
    IF agent_id \notin DOMAIN s.agents THEN s
    ELSE [s EXCEPT !.agents[agent_id] =
            end_review(@, passed, input_tokens, output_tokens, total_cost_usd, now)]

Session_get_agent_review_count(s, agent_id) ==
    IF agent_id \in DOMAIN s.agents THEN completed_review_count(s.agents[agent_id]) ELSE 0

-----------------------------------------------------------------------------
(* models/Config.py *)

\* a check that takes every type for reviewable
should_review_all(config, agent_type) == TRUE

should_review_agent(config, agent_type) == agent_type \in config.agents_to_review

-----------------------------------------------------------------------------
(* services/storage/AgentPathResolver.py *)

Dir(agent_type, agent_id) == [agent_type |-> agent_type, agent_id |-> agent_id]

\* {timestamp}-{agent_type}-{agent_id}, as its hyphen-delimited segments
format_dir_name(d) == <<"ts">> \o d.agent_type \o d.agent_id

\* name.endswith("-" + suffix)
EndsWithDash(name, suffix) ==
    /\ Len(name) > Len(suffix)
    /\ SubSeq(name, Len(name) - Len(suffix) + 1, Len(name)) = suffix

\* the directories find() may return: iterdir() yields the entries in any order
\* and the first one that matches is returned; empty when find() returns None
find(ds, agent_id) == {d \in DOMAIN ds : EndsWithDash(format_dir_name(d), agent_id)}

next_review_number(ds, d) == ds[d] + 1

-----------------------------------------------------------------------------
(* services/storage/SessionStorageService.py *)

NoFile == [state |-> "absent", doc |-> Null]
Truncated == [state |-> "corrupt", doc |-> Null]
File(session) == [state |-> "ok", doc |-> Some(Session_to_dict(session))]

\* Outcomes of one write of the document: "ok", or an OSError raised before the
\* file was opened ("kept": the old content stays) or after open(.., "w")
\* emptied it ("truncated").
WriteOutcomes == {"ok", "kept", "truncated"}

\* The I/O call of an invocation that fails, if one does: the first failure
\* raises and ends the handler, so one is all an invocation can meet.
NoFault == [at |-> "none", io |-> "ok"]
Fault(at, io) == [at |-> at, io |-> io]
Faults(saves, others) ==
    {NoFault} \cup {Fault(at, io) : at \in saves, io \in {"kept", "truncated"}}
              \cup {Fault(at, "kept") : at \in others}
io_at(fault, at) == IF fault.at = at THEN fault.io ELSE "ok"

load_session(d) ==
    IF d.state = "ok" THEN Some(Session_from_dict(d.doc[1])) ELSE Null

save_session(d, session, io) ==
    CASE io = "ok" -> File(session)
      [] io = "kept" -> d
      [] OTHER -> Truncated

\* a session whose metadata is taken again on every call
get_or_create_session_recaptured(d, session_id, transcript_path, git, now) ==
    [Session(session_id, now, transcript_path, git.branch, git.commit)
        EXCEPT !.agents = IF load_session(d) # Null
                          THEN load_session(d)[1].agents ELSE <<>>]

get_or_create_session(d, session_id, transcript_path, git, now) ==
    IF load_session(d) # Null THEN load_session(d)[1]
    ELSE Session(session_id, now, transcript_path, git.branch, git.commit)

get_agent_review_count(d, agent_id) ==
    IF load_session(d) = Null THEN 0
    ELSE Session_get_agent_review_count(load_session(d)[1], agent_id)

-----------------------------------------------------------------------------
(* services/review/ReviewerService.py *)

ReviewResult(passed, feedback) ==
    [passed |-> passed, feedback |-> feedback, input_tokens |-> 0,
     output_tokens |-> 0, total_tokens |-> 0, total_cost_usd |-> Null]

ReviewResult_from_dict(data) ==
    [passed |-> Get(data, "passed", TRUE),
     feedback |-> Get(data, "feedback", <<>>),
     input_tokens |-> Get(data, "input_tokens", 0),
     output_tokens |-> Get(data, "output_tokens", 0),
     total_tokens |-> Get(data, "total_tokens", 0),
     total_cost_usd |-> Get(data, "total_cost_usd", Null)]

\* an error result that holds the agent back
ReviewResult_error_blocking(message) == ReviewResult(FALSE, <<"Review error: ">> \o message)

ReviewResult_error(message) == ReviewResult(TRUE, <<"Review error: ">> \o message)

\* Python's `a or b` on strings
StrOr(a, b) == IF a # <<>> THEN a ELSE b

\* What running the reviewer can give.  how: "completed", "timeout", "oserror".
\* json: what json.loads(stdout) finds: "invalid", "object" (obj holds it), "array".
Completed(json, obj, out, err, rc) ==
    [how |-> "completed", json |-> json, obj |-> obj, stdout |-> out,
     stderr |-> err, returncode |-> rc]

PassedJson ==
    Completed("object",
              [passed |-> TRUE, feedback |-> <<>>, input_tokens |-> 10,
               output_tokens |-> 2, total_tokens |-> 12, total_cost_usd |-> Some(1)],
              <<"{..}">>, <<>>, 0)

BlockedJson ==
    Completed("object",
              [passed |-> FALSE, feedback |-> <<"missing null check">>,
               input_tokens |-> 20, output_tokens |-> 3, total_tokens |-> 23,
               total_cost_usd |-> Some(2)],
              <<"{..}">>, <<>>, 1)

\* cli.py run_review: the review raised, "Error: .." on stderr, exit code 2
CrashedRun == Completed("invalid", <<>>, <<>>, <<"Error: boom">>, 2)
SilentCrash == Completed("invalid", <<>>, <<>>, <<>>, 1)
ProseExitZero == Completed("invalid", <<>>, <<"LGTM">>, <<>>, 0)
ArrayJson == Completed("array", <<>>, <<"[]">>, <<>>, 0)
TimedOut == [how |-> "timeout", json |-> "invalid", obj |-> <<>>, stdout |-> <<>>,
             stderr |-> <<>>, returncode |-> 0]
SpawnFailed == [TimedOut EXCEPT !.how = "oserror"]

ProcOutcomes ==
    {PassedJson, BlockedJson, CrashedRun, SilentCrash, ProseExitZero, ArrayJson,
     TimedOut, SpawnFailed}

\* ReviewerService.review: [raised, value]; raised when from_dict is handed a
\* JSON value that is not an object (AttributeError, not caught there).
Returned(v) == [raised |-> FALSE, value |-> Some(v)]
RaisedError == [raised |-> TRUE, value |-> Null]

review(files, tool_exists, proc) ==
    IF files = <<>> THEN Returned(ReviewResult(TRUE, <<>>))
    ELSE IF ~tool_exists
    THEN Returned(ReviewResult_error(<<"Code reviewer not found: cli.py">>))
    ELSE IF proc.how = "timeout"
    THEN Returned(ReviewResult_error(<<"Review timed out after 90s">>))
    ELSE IF proc.how = "oserror"
    THEN Returned(ReviewResult_error(<<"OSError">>))
    ELSE IF proc.json = "object" THEN Returned(ReviewResult_from_dict(proc.obj))
    ELSE IF proc.json = "array" THEN RaisedError
    ELSE IF proc.returncode = 0 THEN Returned(ReviewResult(TRUE, <<>>))
    ELSE Returned(ReviewResult(FALSE,
            StrOr(proc.stderr, StrOr(proc.stdout, <<"Review failed (unknown error)">>))))

\* a client that starts the reviewer whenever the tool is there
spawns_if_tool(files, tool_exists) == tool_exists

\* whether review() started the reviewer process
spawns(files, tool_exists) == files # <<>> /\ tool_exists

-----------------------------------------------------------------------------
(* code-reviewer: services/CodeReviewService.py, models/CodeReviewResult.py,
   cli.py.  The reviewer's text is a sequence of segments: prose (no name) and
   elements <name>value</name>. *)

\* str.lower() and the \s* of the pattern, on the strings of the model
lower(str) ==
    CASE str = "DECISION" -> "decision"
      [] str = "BLOCKED" -> "blocked"
      [] str = "Passed" -> "passed"
      [] OTHER -> str

strip(str) ==
    CASE str = " blocked " -> "blocked"
      [] str = " " -> ""
      [] OTHER -> str

\* a reading in which any blocked tag decides
parse_decision_any(review_text) ==
    \E i \in DOMAIN review_text :
        /\ lower(review_text[i].name) = "decision"
        /\ lower(strip(review_text[i].value)) = "blocked"

\* _parse_decision: re.search finds the first <decision> element whose value,
\* inside optional white space and in any case, is passed or blocked
parse_decision(review_text) ==
    LET matches == SelectSeq(review_text,
                       LAMBDA seg : /\ lower(seg.name) = "decision"
                                    /\ lower(strip(seg.value)) \in {"passed", "blocked"})
    IN  IF matches = <<>> THEN FALSE
        ELSE lower(strip(matches[1].value)) = "blocked"

\* CodeReviewService.review, lines 172-226, given the text blocks the query
\* produced and whether it raised
CodeReviewService_review(review_text, error) ==
    IF error
    THEN [has_issues |-> FALSE, review_text |-> <<"Review failed: Claude Agent SDK error">>]
    ELSE IF \A i \in DOMAIN review_text :
                review_text[i].name = "" /\ strip(review_text[i].value) = ""
    THEN [has_issues |-> FALSE,
          review_text |-> <<"Review completed but no output was generated.">>]
    ELSE [has_issues |-> parse_decision(review_text), review_text |-> review_text]

\* cli.py run_review, lines 254-269, with CodeReviewResult.to_dict: the JSON
\* printed and the exit code
run_review(code_result) ==
    Completed("object",
              [passed |-> ~code_result.has_issues,
               feedback |-> IF code_result.has_issues THEN code_result.review_text
                            ELSE <<>>,
               input_tokens |-> 0, output_tokens |-> 0, total_tokens |-> 0,
               total_cost_usd |-> Null],
              <<"{..}">>, <<>>, IF code_result.has_issues THEN 1 ELSE 0)

-----------------------------------------------------------------------------
(* models/HookInput.py *)

\* data.get(key): None when the key is missing
Opt(d, k) == IF k \in DOMAIN d THEN Some(d[k]) ELSE Null

With(r, k, v) == [x \in DOMAIN r \cup {k} |-> IF x = k THEN v ELSE r[x]]

HookInput_from_dict(data) ==
    [session_id |-> Get(data, "session_id", "unknown"),
     hook_event_name |-> Get(data, "hook_event_name", "unknown"),
     transcript_path |-> Opt(data, "transcript_path"),
     agent_id |-> Opt(data, "agent_id"),
     agent_type |-> Opt(data, "agent_type"),
     agent_transcript_path |-> Opt(data, "agent_transcript_path"),
     stop_hook_active |-> Get(data, "stop_hook_active", FALSE)]

is_start_event(input) == input.hook_event_name = "SubagentStart"
is_stop_event(input) == input.hook_event_name = "SubagentStop"

\* The JSON objects the host may send
Event(name) ==
    [session_id |-> SessionId, transcript_path |-> MainTranscript,
     hook_event_name |-> name]

StartEvent(a, t) == With(With(Event("SubagentStart"), "agent_id", a), "agent_type", t)

StopEvent(a, retry) ==
    With(With(With(Event("SubagentStop"), "agent_id", a),
              "agent_transcript_path", TranscriptPath),
         "stop_hook_active", retry)

StartEvents ==
    {StartEvent(a, t) : a \in AgentIds, t \in AgentTypes}
    \cup {With(Event("SubagentStart"), "agent_id", a) : a \in AgentIds}
    \cup {With(Event("SubagentStart"), "agent_type", t) : t \in AgentTypes}

StopEvents ==
    {StopEvent(a, retry) : a \in AgentIds, retry \in BOOLEAN}
    \cup {With(Event("SubagentStop"), "agent_id", a) : a \in AgentIds}
    \cup {Event("SubagentStop")}

OtherEvents == {Event("PreToolUse")}

-----------------------------------------------------------------------------
(* main.py *)

allow(reason) == [decision |-> "allow", reason |-> reason, should_block |-> FALSE]
block(reason) == [decision |-> "block", reason |-> reason, should_block |-> TRUE]

\* an exception handler that fails closed
ErrorResult_block == block(<<"Error during processing">>)

\* run(): except Exception -> _allow("Error during processing")
ErrorResult == allow(<<"Error during processing">>)

NoInput == [hook_event_name |-> "none"]
NoLoc == [agent_type |-> Null]
NoResult == [decision |-> "none"]
NoObs == [reviewed |-> FALSE, spawned |-> FALSE, proc |-> Null, verdict |-> Null,
          raised |-> FALSE, fault |-> "none", pre |-> NoFile, tr |-> Null,
          peer |-> [pc |-> "idle", session |-> Null, old |-> NoFile],
          exit |-> Null]

-----------------------------------------------------------------------------
(* models/transcript/ToolCall.py, services/transcript/TranscriptParserService.py,
   models/TranscriptAnalysis.py *)

FILE_MODIFYING_TOOLS ==
    {"Edit", "Write", "MultiEdit",
     "mcp__serena__replace_symbol_body", "mcp__serena__insert_after_symbol",
     "mcp__serena__insert_before_symbol", "mcp__serena__rename_symbol"}

ToolCall(id, name, input) == [id |-> id, name |-> name, input |-> input]

is_file_modifying(tool_call) == tool_call.name \in FILE_MODIFYING_TOOLS

\* ToolCall.file_path: the input's file_path, else its relative_path, else None
ToolCall_file_path(tool_call) ==
    IF "file_path" \in DOMAIN tool_call.input THEN Some(tool_call.input.file_path)
    ELSE IF "relative_path" \in DOMAIN tool_call.input
    THEN Some(tool_call.input.relative_path)
    ELSE Null

\* TranscriptEntry.file_modifying_tool_calls
file_modifying_tool_calls(entry) ==
    SelectSeq(entry.tool_calls, LAMBDA tc : is_file_modifying(tc))

\* tool_name.startswith("mcp__serena__"), for the tool names of the model
StartsWithSerena(tool_name) ==
    tool_name \in {"mcp__serena__replace_symbol_body", "mcp__serena__insert_after_symbol",
                   "mcp__serena__insert_before_symbol", "mcp__serena__rename_symbol",
                   "mcp__serena__find_symbol"}

determine_action(tool_name) ==
    IF tool_name = "Write" THEN "created"
    ELSE IF tool_name \in {"Edit", "MultiEdit"} THEN "edited"
    ELSE IF StartsWithSerena(tool_name) THEN "edited"
    ELSE "unknown"

FileChange(path, action, tool_name, tool_call_id, tool_input) ==
    [path |-> path, action |-> action, tool_name |-> tool_name,
     tool_call_id |-> tool_call_id, tool_input |-> tool_input]

\* the locals of _extract_file_changes
NoChanges == [seen_paths |-> {}, file_changes |-> <<>>]

\* a loop body in which the latest tool call on a path replaces the entry
extract_call_latest(st, tool_call) ==
    LET path == ToolCall_file_path(tool_call)
        fc == FileChange(path[1], determine_action(tool_call.name), tool_call.name,
                         tool_call.id, tool_call.input)
    IN  IF path = Null \/ path[1] = "" THEN st
        ELSE IF path[1] \in st.seen_paths
        THEN [st EXCEPT !.file_changes =
                [i \in DOMAIN @ |-> IF @[i].path = path[1] THEN fc ELSE @[i]]]
        ELSE [seen_paths |-> st.seen_paths \cup {path[1]},
              file_changes |-> Append(st.file_changes, fc)]

\* _extract_file_changes, lines 137-157: the body of the inner loop
extract_call(st, tool_call) ==
    LET path == ToolCall_file_path(tool_call)
    IN  IF path = Null \/ path[1] = "" THEN st
        ELSE IF path[1] \in st.seen_paths THEN st
        ELSE [seen_paths |-> st.seen_paths \cup {path[1]},
              file_changes |->
                  Append(st.file_changes,
                         FileChange(path[1], determine_action(tool_call.name),
                                    tool_call.name, tool_call.id, tool_call.input))]

RECURSIVE extract_calls(_, _)
extract_calls(st, tool_calls) ==
    IF tool_calls = <<>> THEN st
    ELSE extract_calls(extract_call(st, Head(tool_calls)), Tail(tool_calls))

\* one turn of the outer loop
extract_entry(st, entry) == extract_calls(st, file_modifying_tool_calls(entry))

RECURSIVE extract_entries(_, _)
extract_entries(st, entries) ==
    IF entries = <<>> THEN st
    ELSE extract_entries(extract_entry(st, Head(entries)), Tail(entries))

extract_file_changes(entries) == extract_entries(NoChanges, entries).file_changes

RECURSIVE unique_from(_, _)
unique_from(seen, file_changes) ==
    IF file_changes = <<>> THEN <<>>
    ELSE IF Head(file_changes).path \in seen THEN unique_from(seen, Tail(file_changes))
    ELSE <<Head(file_changes).path>>
         \o unique_from(seen \cup {Head(file_changes).path}, Tail(file_changes))

\* TranscriptAnalysis.unique_file_paths
unique_file_paths(file_changes) == unique_from({}, file_changes)

\* TranscriptEntry.from_dict with _extract_tool_data: the entry of a JSON
\* object, or None here where the code raises AttributeError (the message is
\* null, or a content block is a string and has no get).  The content of a
\* message is a string or a list of blocks.
TranscriptEntry_from_dict(data) ==
    IF "message" \in DOMAIN data /\ data.message = Null THEN Null
    ELSE
    LET message == Get(data, "message", <<>>)
        given == Get(message, "content", [kind |-> "list", v |-> <<>>])
        content == IF given.kind = "str"
                   THEN <<[type |-> "text", text |-> given.v]>>
                   ELSE given.v
        uses == SelectSeq(content, LAMBDA b : Get(b, "type", "") = "tool_use")
    IN  IF \E i \in DOMAIN content : "bare" \in DOMAIN content[i] THEN Null
        ELSE Some([entry_type |-> Get(data, "type", ""),
                   parent_uuid |-> Get(data, "parentUuid", Null),
                   message_content |-> content,
                   tool_calls |-> [i \in DOMAIN uses |->
                                     ToolCall(Get(uses[i], "id", ""), Get(uses[i], "name", ""),
                                              Get(uses[i], "input", <<>>))]])

\* _read_entries, lines 80-95: blank lines and lines json.loads rejects are
\* skipped; a line holding JSON that is not an object reaches from_dict, whose
\* data.get raises AttributeError.  None stands for the exception.
RECURSIVE read_entries(_)
read_entries(lines) ==
    IF lines = <<>> THEN Some(<<>>)
    ELSE LET line == Head(lines)
             rest == read_entries(Tail(lines))
         IN  IF line.kind \in {"blank", "garbage"} THEN rest
             ELSE IF line.kind = "value" THEN Null
             ELSE IF TranscriptEntry_from_dict(line.data) = Null THEN Null
             ELSE IF rest = Null THEN Null
             ELSE Some(<<TranscriptEntry_from_dict(line.data)[1]>> \o rest[1])

is_initial_prompt(entry) == entry.entry_type = "user" /\ entry.parent_uuid = Null

\* TranscriptEntry.initial_prompt_text: the text of the first text block
initial_prompt_text(entry) ==
    LET texts == SelectSeq(entry.message_content, LAMBDA b : Get(b, "type", "") = "text")
    IN  IF ~is_initial_prompt(entry) \/ texts = <<>> THEN Null
        ELSE Some(Get(texts[1], "text", ""))

\* a search for the prompt that takes the first user entry, root or not
extract_initial_prompt_any_user(entries) ==
    LET users == SelectSeq(entries, LAMBDA e : e.entry_type = "user")
        texts == IF users = <<>> THEN <<>>
                 ELSE SelectSeq(users[1].message_content,
                                LAMBDA b : Get(b, "type", "") = "text")
    IN  IF texts = <<>> THEN "" ELSE Get(texts[1], "text", "")

\* _extract_initial_prompt
extract_initial_prompt(entries) ==
    LET roots == SelectSeq(entries, is_initial_prompt)
    IN  IF roots = <<>> THEN ""
        ELSE IF initial_prompt_text(roots[1]) \in {Null, Some("")} THEN ""
        ELSE initial_prompt_text(roots[1])[1]

\* parse() of a transcript file that exists: the analysis, or None when
\* _read_entries raised
parse(lines) ==
    IF read_entries(lines) = Null THEN Null
    ELSE Some([initial_prompt |-> extract_initial_prompt(read_entries(lines)[1]),
               file_changes |-> extract_file_changes(read_entries(lines)[1]),
               entries |-> read_entries(lines)[1]])

\* an agent that wrote one file and edited it afterwards
FooEntries ==
    <<[tool_calls |-> <<ToolCall(1, "Write", [file_path |-> "app/Foo.php"])>>],
      [tool_calls |-> <<ToolCall(2, "Edit", [file_path |-> "app/Foo.php"])>>]>>

\* What the agent's transcript file holds when the stop event arrives:
\* whether it exists, whether parse() gets through it (open() may fail, a line
\* may hold JSON that is not an object), and the deduplicated paths its file
\* changes give.
Transcripts ==
    {[exists |-> FALSE, parses |-> FALSE, files |-> <<>>],
     [exists |-> TRUE, parses |-> FALSE, files |-> <<>>],
     [exists |-> TRUE, parses |-> TRUE,
      files |-> unique_file_paths(extract_file_changes(<<>>))],
     [exists |-> TRUE, parses |-> TRUE,
      files |-> unique_file_paths(extract_file_changes(FooEntries))]}

\* Outcome of a stretch of a handler: the files after it, the locals, where the
\* process goes next, the HookResult when it returned or raised, and for the
\* record which I/O call failed.
Step(d, ds, l, next, res, raised, fault) ==
    [disk |-> d, dirs |-> ds, loc |-> l, next |-> next, result |-> res,
     raised |-> raised, fault |-> fault]

Returns(d, ds, res) == Step(d, ds, NoLoc, "done", res, FALSE, "none")
Raises(d, ds, fault) == Step(d, ds, NoLoc, "done", ErrorResult, TRUE, fault)

\* get_git_info: the branch and the short commit hash, or (None, None) when a
\* git command fails
GitInfos ==
    {[branch |-> Null, commit |-> Null],
     [branch |-> Some("main"), commit |-> Some("3c322d0")]}

\* _handle_start with SessionStorageService.track_agent_start
handle_start(config, d, ds, input, git, now, fault) ==
    IF input.agent_id = Null
    THEN Returns(d, ds, allow(<<"No agent_id in SubagentStart">>))
    ELSE IF input.agent_type = Null
    THEN Returns(d, ds, allow(<<"No agent_type in SubagentStart">>))
    ELSE
    LET agent_id == input.agent_id[1]
        agent_type == input.agent_type[1]
        will_be_reviewed == should_review_agent(config, agent_type)
        transcript_path == IF input.transcript_path # Null
                           THEN input.transcript_path[1] ELSE ""
        session == add_agent(get_or_create_session(d, input.session_id,
                                                   transcript_path, git, now),
                             agent_id, agent_type, now)
        io_save == io_at(fault, "track_agent_start")
        io_mkdir == io_at(fault, "agent_dir")
        d1 == save_session(d, session, io_save)
        ds1 == IF find(ds, agent_id) # {} THEN ds
               ELSE [x \in DOMAIN ds \cup {Dir(agent_type, agent_id)} |->
                        IF x \in DOMAIN ds THEN ds[x] ELSE 0]
    IN  IF io_save # "ok" THEN Raises(d1, ds, "track_agent_start")
        ELSE IF ~will_be_reviewed THEN Returns(d1, ds, allow(<<"Agent start tracked">>))
        ELSE IF io_mkdir # "ok" THEN Raises(d1, ds, "agent_dir")
        ELSE Returns(d1, ds1, allow(<<"Agent start tracked">>))

\* a check of the path that forgets to look at the disk
transcript_found_given(input, tr) == input.agent_transcript_path # Null

\* _handle_stop, line 296: the transcript path is given and the file exists
transcript_found(input, tr) == input.agent_transcript_path # Null /\ tr.exists

\* a ceiling that lets one more review through
ceiling_reached_late(input, review_count, max_cycles) ==
    input.stop_hook_active /\ review_count > max_cycles

\* _handle_stop, lines 280-286: a retry that has used up its review cycles
ceiling_reached(input, review_count, max_cycles) ==
    input.stop_hook_active /\ review_count >= max_cycles

\* _handle_stop, lines 240-331: up to and including start_agent_review.
\* review_dir is the directory find() returned, when it returned one.
handle_stop_begin(config, d, ds, input, now, tr, fault, review_dir) ==
    IF input.agent_id = Null
    THEN Returns(d, ds, allow(<<"No agent_id in SubagentStop">>))
    ELSE
    LET agent_id == input.agent_id[1]
        loaded == load_session(d)
    IN  IF loaded = Null
           \/ agent_id \notin DOMAIN end_agent(loaded[1], agent_id,
                                               input.agent_transcript_path, now).agents
        THEN Returns(d, ds, allow(<<"Agent not tracked">>))
        ELSE
        LET session == end_agent(loaded[1], agent_id, input.agent_transcript_path, now)
            agent == session.agents[agent_id]
            io_stop == io_at(fault, "track_agent_stop")
            io_mkdir == io_at(fault, "create_review_dir")
            io_start == io_at(fault, "start_agent_review")
            d1 == save_session(d, session, io_stop)
            review_count == completed_review_count(agent)
            max_cycles == config.max_review_cycles
        IN  IF io_stop # "ok" THEN Raises(d1, ds, "track_agent_stop")
            ELSE IF ~should_review_agent(config, agent.agent_type)
            THEN Returns(d1, ds, allow(<<"Agent type not configured for review">>))
            ELSE IF ceiling_reached(input, review_count, max_cycles)
            THEN Returns(d1, ds, allow(<<"Max review cycles reached">>))
            ELSE IF ~transcript_found(input, tr)
            THEN Returns(d1, ds, allow(<<"Agent transcript not found">>))
            ELSE IF input.agent_transcript_path = Null \/ ~tr.exists
            THEN Raises(d1, ds, "none")      \* parse(): FileNotFoundError
            ELSE IF ~tr.parses
            THEN Raises(d1, ds, "parse")
            ELSE IF tr.files = <<>>
            THEN Returns(d1, ds, allow(<<"No file changes">>))
            ELSE IF config.skip_if_no_file_changes /\ tr.files = <<>>
            THEN Returns(d1, ds, allow(<<"No file changes (skip_if_no_file_changes=true)">>))
            ELSE IF find(ds, agent_id) = {}
            THEN Raises(d1, ds, "none")
            ELSE IF io_mkdir # "ok" THEN Raises(d1, ds, "create_review_dir")
            ELSE
            LET review_number == next_review_number(ds, review_dir)
                ds1 == [ds EXCEPT ![review_dir] = review_number]
                reloaded == load_session(d1)
                started == Session_start_agent_review(reloaded[1], agent_id, now)
                d2 == save_session(d1, started, io_start)
            IN  IF io_start # "ok" THEN Raises(d2, ds1, "start_agent_review")
                ELSE Step(d2, ds1,
                          [agent_type |-> Some(agent.agent_type), agent_id |-> agent_id,
                           review_dir |-> review_dir, review_number |-> review_number,
                           files |-> tr.files, review_result |-> Null],
                          "reviewing", NoResult, FALSE, "none")

\* _handle_stop, lines 353-415: the audit records, end_agent_review, the result
handle_stop_finish(d, ds, l, now, fault) ==
    LET rr == l.review_result[1]
        io_audit == io_at(fault, "audit")
        io_end == io_at(fault, "end_agent_review")
        loaded == load_session(d)
        ended == Session_end_agent_review(loaded[1], l.agent_id, rr.passed,
                     rr.input_tokens, rr.output_tokens, rr.total_cost_usd, now)
        saves == /\ loaded # Null
                 /\ l.agent_id \in DOMAIN loaded[1].agents
                 /\ loaded[1].agents[l.agent_id].reviews # <<>>
        d1 == IF saves THEN save_session(d, ended, io_end) ELSE d
        res == IF rr.passed THEN allow(<<"Review passed">>) ELSE block(rr.feedback)
    IN  IF io_audit # "ok" THEN Raises(d, ds, "audit")
        ELSE IF saves /\ io_end # "ok" THEN Raises(d1, ds, "end_agent_review")
        ELSE Returns(d1, ds, res)

\* a payload that drops the feedback
payload_no_reason(res) ==
    IF res.should_block THEN Some([decision |-> "block", reason |-> <<>>])
    ELSE Null

\* run(), lines 183-188: the payload printed for a result
payload(res) ==
    IF res.should_block THEN Some([decision |-> "block", reason |-> res.reason])
    ELSE Null

\* the second process before it has loaded anything
NoPeer == [pc |-> "idle", session |-> Null, old |-> NoFile]

-----------------------------------------------------------------------------
(* The state machine *)

Init ==
    /\ cfg \in Configs
    /\ disk = NoFile
    /\ dirs = <<>>
    /\ clock = 0
    /\ pc = "idle"
    /\ inp = NoInput
    /\ loc = NoLoc
    /\ result = NoResult
    /\ stdout = Null
    /\ obs = NoObs
    /\ host = [a \in AgentIds |-> [state |-> "new", blocks |-> 0, listed |-> "unset"]]
    /\ peer = NoPeer

\* main() and run(), lines 151-172: the process starts on one event, parses it
\* and runs the handler; st is the handler's outcome up to its first return,
\* raise or call of the reviewer.  The payload is printed once the result is known.
Take(input, st, tr) ==
    /\ clock' = clock + 1
    /\ inp' = input
    /\ disk' = st.disk
    /\ dirs' = st.dirs
    /\ loc' = st.loc
    /\ pc' = st.next
    /\ result' = st.result
    /\ stdout' = IF st.next = "done" THEN payload(st.result) ELSE Null
    /\ obs' = [NoObs EXCEPT !.raised = st.raised, !.fault = st.fault, !.pre = disk,
                            !.exit = IF st.next = "done" THEN Some(0) ELSE Null,
                            !.tr = tr, !.peer = peer]
    /\ UNCHANGED <<cfg, host, peer>>

\* faults: the I/O failures the invocation may meet
HandleStartWith(raw, faults) ==
    LET input == HookInput_from_dict(raw)
    IN  /\ is_start_event(input)
        /\ \E fault \in faults, git \in GitInfos :
              Take(input, handle_start(cfg, disk, dirs, input, git, clock + 1, fault), Null)

HandleStart(raw) == HandleStartWith(raw, Faults({"track_agent_start"}, {"agent_dir"}))

StopBeginWith(raw, faults) ==
    LET input == HookInput_from_dict(raw)
    IN  /\ ~is_start_event(input)
        /\ is_stop_event(input)
        /\ \E tr \in Transcripts, fault \in faults :
              \E review_dir \in (IF input.agent_id = Null \/ find(dirs, input.agent_id[1]) = {}
                                 THEN {Null} ELSE find(dirs, input.agent_id[1])) :
                 Take(input, handle_stop_begin(cfg, disk, dirs, input, clock + 1, tr,
                                               fault, review_dir), Some(tr))

StopBegin(raw) ==
    StopBeginWith(raw, Faults({"track_agent_stop", "start_agent_review"},
                              {"create_review_dir"}))

\* an unknown event that holds the agent back
HandleOther_blocks(raw) ==
    LET input == HookInput_from_dict(raw)
    IN  /\ ~is_start_event(input)
        /\ ~is_stop_event(input)
        /\ Take(input, Returns(disk, dirs, block(<<"Unknown event: ", input.hook_event_name>>)),
                Null)

\* run(), line 169
HandleOther(raw) ==
    LET input == HookInput_from_dict(raw)
    IN  /\ ~is_start_event(input)
        /\ ~is_stop_event(input)
        /\ Take(input, Returns(disk, dirs, allow(<<"Unknown event: ", input.hook_event_name>>)),
                Null)

Run(raw) ==
    /\ pc = "idle"
    /\ (HandleStart(raw) \/ StopBegin(raw) \/ HandleOther(raw))

\* The host sends any event at any time
Invoke ==
    /\ pc = "idle"
    /\ clock < MaxEvents
    /\ \E raw \in StartEvents \cup StopEvents \cup OtherEvents : Run(raw)

\* the agents the protocol-following host runs
HostAgents == {A1}

\* The host as its protocol describes it: an agent starts once, its first stop
\* event has stop_hook_active false, a block is followed by a stop event with
\* stop_hook_active true, and an allowed agent is finished.
HostStart(a) ==
    /\ host[a].state = "new"
    /\ \E t \in AgentTypes : Run(StartEvent(a, t))

HostStop(a) ==
    /\ host[a].state = "running"
    /\ Run(StopEvent(a, FALSE))

HostRetry(a) ==
    /\ host[a].state = "blocked"
    /\ Run(StopEvent(a, TRUE))

\* config.json is edited between two invocations
EditConfig ==
    /\ pc = "idle"
    /\ \E l \in ReviewLists \ {cfg.agents_to_review} :
          cfg' = [cfg EXCEPT !.agents_to_review = l]
    /\ UNCHANGED <<disk, dirs, clock, pc, inp, loc, result, stdout, obs, host, peer>>

\* _handle_stop, lines 333-350: the review log is opened, the reviewer is called
StopReview ==
    /\ pc = "reviewing"
    /\ \E io_log \in {"ok", "kept"}, tool_exists \in BOOLEAN, proc \in ProcOutcomes :
          LET rv == review(loc.files, tool_exists, proc)
          IN  IF io_log # "ok"
              THEN /\ pc' = "done"
                   /\ result' = ErrorResult
                   /\ stdout' = payload(ErrorResult)
                   /\ obs' = [obs EXCEPT !.raised = TRUE, !.fault = "review_log",
                                         !.exit = Some(0)]
                   /\ loc' = loc
              ELSE /\ pc' = IF rv.raised THEN "done" ELSE "finishing"
                   /\ result' = IF rv.raised THEN ErrorResult ELSE NoResult
                   /\ stdout' = IF rv.raised THEN payload(ErrorResult) ELSE Null
                   /\ obs' = [obs EXCEPT !.reviewed = TRUE,
                                         !.spawned = spawns(loc.files, tool_exists),
                                         !.proc = IF spawns(loc.files, tool_exists)
                                                  THEN Some(proc) ELSE Null,
                                         !.verdict = rv.value,
                                         !.raised = rv.raised,
                                         !.exit = IF rv.raised THEN Some(0) ELSE Null]
                   /\ loc' = [loc EXCEPT !.review_result = rv.value]
    /\ UNCHANGED <<cfg, disk, dirs, clock, inp, host, peer>>

StopFinishWith(faults) ==
    /\ pc = "finishing"
    /\ \E fault \in faults :
          LET st == handle_stop_finish(disk, dirs, loc, clock, fault)
          IN  /\ disk' = st.disk
              /\ pc' = st.next
              /\ result' = st.result
              /\ stdout' = payload(st.result)
              /\ obs' = [obs EXCEPT !.raised = st.raised, !.fault = st.fault,
                                    !.exit = Some(0)]
    /\ UNCHANGED <<cfg, dirs, clock, inp, loc, host, peer>>

StopFinish == StopFinishWith(Faults({"end_agent_review"}, {"audit"}))

\* What the host has seen of each agent: where the agent stands in the
\* protocol, how many blocks it got, and whether its type was in
\* agents_to_review when its latest start event was handled.
seen(h, input, res, config) ==
    IF input.agent_id = Null \/ input.agent_id[1] \notin AgentIds THEN h
    ELSE IF is_start_event(input)
    THEN [h EXCEPT ![input.agent_id[1]] =
            [state |-> IF @.state = "new" THEN "running" ELSE @.state,
             blocks |-> @.blocks,
             listed |-> IF input.agent_type = Null THEN @.listed
                        ELSE IF should_review_agent(config, input.agent_type[1])
                        THEN "yes" ELSE "no"]]
    ELSE IF is_stop_event(input)
    THEN [h EXCEPT ![input.agent_id[1]] =
            IF res.should_block
            THEN [@ EXCEPT !.state = "blocked", !.blocks = @ + 1]
            ELSE [@ EXCEPT !.state = "finished"]]
    ELSE h

Finish ==
    /\ pc = "done"
    /\ pc' = "idle"
    /\ inp' = NoInput
    /\ loc' = NoLoc
    /\ result' = NoResult
    /\ stdout' = Null
    /\ obs' = NoObs
    /\ UNCHANGED <<cfg, disk, dirs, clock, peer>>

\* run(), line 190: the process exits; the host does not keep what it saw
Exit == Finish /\ host' = host

\* the same exit, seen by a host that follows its protocol
HostExit == Finish /\ host' = seen(host, inp, result, cfg)

Next == Invoke \/ EditConfig \/ StopReview \/ StopFinish \/ Exit

Spec == Init /\ [][Next]_vars

\* main(), lines 428-436, on standard input that is not an event object.
\* Text that is not JSON: json.load raises JSONDecodeError, a message goes to
\* standard error and main returns 1.  JSON that is not an object:
\* HookInput.from_dict, before the try of run(), calls raw_input.get and the
\* AttributeError ends the process with a traceback and exit code 1.
Malformed ==
    /\ pc = "idle"
    /\ clock < MaxEvents
    /\ \E raw \in {"not JSON", "not an object"} :
          inp' = [hook_event_name |-> "none", raw |-> raw]
    /\ clock' = clock + 1
    /\ pc' = "done"
    /\ obs' = [NoObs EXCEPT !.pre = disk, !.peer = peer, !.raised = TRUE, !.exit = Some(1)]
    /\ UNCHANGED <<cfg, disk, dirs, loc, result, stdout, host, peer>>

\* the hook on any standard input
SpecMain == Init /\ [][Next \/ Malformed]_vars

\* The host follows its protocol, the hook process runs to its end (the reviewer
\* call is cut by its timeout), and a blocked agent is stopped again.
HostNext ==
    \/ \E a \in HostAgents : HostStart(a) \/ HostStop(a) \/ HostRetry(a)
    \/ EditConfig
    \/ StopReview
    \/ StopFinish
    \/ HostExit

SpecHost ==
    /\ Init
    /\ [][HostNext]_vars
    /\ WF_vars(StopReview)
    /\ WF_vars(StopFinish)
    /\ WF_vars(HostExit)
    /\ \A a \in HostAgents : WF_vars(HostRetry(a))

-----------------------------------------------------------------------------
(* Two processes on one session document *)

\* the agent whose start event the second process handles, and its type
PeerAgent == A2
PeerType == BackendEngineer

\* track_agent_start, lines 186-188: get_or_create_session and add_agent, in
\* the second process's memory
PeerLoad ==
    /\ peer.pc = "idle"
    /\ \E git \in GitInfos :
       peer' = [pc |-> "loaded",
                session |-> Some(add_agent(get_or_create_session(disk, SessionId,
                                               MainTranscript, git, clock),
                                           PeerAgent, PeerType, clock)),
                old |-> NoFile]
    /\ UNCHANGED <<cfg, disk, dirs, clock, pc, inp, loc, result, stdout, obs, host>>

\* save_session, line 123: open(session_file, "w") empties the file
PeerOpen ==
    /\ peer.pc = "loaded"
    /\ peer' = [peer EXCEPT !.pc = "opened", !.old = disk]
    /\ disk' = Truncated
    /\ UNCHANGED <<cfg, dirs, clock, pc, inp, loc, result, stdout, obs, host>>

\* save_session, line 124: json.dump writes the document through the handle
\* opened before; when the other process wrote the file in between, the two
\* writes overlap and the file holds this document or no valid JSON.  Then
\* track_agent_start creates the agent directory of a reviewable type.
PeerDump ==
    /\ peer.pc = "opened"
    /\ peer' = NoPeer
    /\ disk' \in {File(peer.session[1])} \cup (IF disk = Truncated THEN {} ELSE {Truncated})
    /\ dirs' = IF should_review_agent(cfg, PeerType) /\ find(dirs, PeerAgent) = {}
               THEN [x \in DOMAIN dirs \cup {Dir(PeerType, PeerAgent)} |->
                        IF x \in DOMAIN dirs THEN dirs[x] ELSE 0]
               ELSE dirs
    /\ UNCHANGED <<cfg, clock, pc, inp, loc, result, stdout, obs, host>>

\* The first process handles the events the host's protocol gives for its
\* agents and meets no I/O failure of its own.
RaceStart(a) ==
    /\ pc = "idle"
    /\ clock < MaxEvents
    /\ host[a].state = "new"
    /\ \E t \in AgentTypes : HandleStartWith(StartEvent(a, t), {NoFault})

RaceStop(a) ==
    /\ pc = "idle"
    /\ clock < MaxEvents
    /\ host[a].state = "running"
    /\ StopBeginWith(StopEvent(a, FALSE), {NoFault})

RaceRetry(a) ==
    /\ pc = "idle"
    /\ clock < MaxEvents
    /\ host[a].state = "blocked"
    /\ StopBeginWith(StopEvent(a, TRUE), {NoFault})

RaceFinish == StopFinishWith({NoFault})

RaceNext ==
    \/ \E a \in HostAgents : RaceStart(a) \/ RaceStop(a) \/ RaceRetry(a)
    \/ StopReview
    \/ RaceFinish
    \/ HostExit
    \/ PeerLoad
    \/ PeerOpen
    \/ PeerDump

SpecRace == Init /\ [][RaceNext]_vars

-----------------------------------------------------------------------------
(* TranscriptParserService._extract_file_changes on a transcript of up to
   MaxCalls tool calls: inp holds the entries, loc the locals of the loop,
   result the list returned, and after that loc holds the paths handed to
   the reviewer. *)

ToolNames == {"Write", "Edit", "mcp__serena__rename_symbol", "Read"}

ToolInputs ==
    {[file_path |-> "app/Foo.php"], [file_path |-> "app/Bar.php"],
     [relative_path |-> "app/Foo.php"], [file_path |-> ""], [pattern |-> "*.php"]}

\* the tool_use blocks of a transcript, with ids in the order of the blocks
ToolCallSeqs ==
    UNION {[1..n -> ToolNames \X ToolInputs] : n \in 0..MaxCalls}

Entries(blocks, k) ==
    LET calls == [i \in DOMAIN blocks |-> ToolCall(i, blocks[i][1], blocks[i][2])]
    IN  <<[tool_calls |-> SubSeq(calls, 1, k)],
          [tool_calls |-> SubSeq(calls, k + 1, Len(calls))]>>

ParseInit ==
    /\ \E blocks \in ToolCallSeqs : \E k \in 0..Len(blocks) : inp = Entries(blocks, k)
    /\ loc = [entry |-> 1, st |-> NoChanges]
    /\ pc = "extracting"
    /\ cfg \in {c \in Configs : c.max_review_cycles = 1 /\ c.skip_if_no_file_changes
                                 /\ c.agents_to_review # {}}
    /\ disk = NoFile
    /\ dirs = <<>>
    /\ clock = 0
    /\ result = NoResult
    /\ stdout = Null
    /\ obs = NoObs
    /\ host = [a \in AgentIds |-> [state |-> "new", blocks |-> 0, listed |-> "unset"]]
    /\ peer = NoPeer

\* lines 135-157: one entry of the outer loop
ExtractEntry ==
    /\ pc = "extracting"
    /\ loc.entry <= Len(inp)
    /\ loc' = [entry |-> loc.entry + 1, st |-> extract_entry(loc.st, inp[loc.entry])]
    /\ UNCHANGED <<cfg, disk, dirs, clock, pc, inp, result, stdout, obs, host, peer>>

\* line 159
ExtractReturn ==
    /\ pc = "extracting"
    /\ loc.entry > Len(inp)
    /\ result' = loc.st.file_changes
    /\ pc' = "extracted"
    /\ UNCHANGED <<cfg, disk, dirs, clock, inp, loc, stdout, obs, host, peer>>

\* main.py, lines 342-349: the paths given to ReviewerService.review
ReviewFiles ==
    /\ pc = "extracted"
    /\ loc' = [file_paths |-> unique_file_paths(result)]
    /\ pc' = "handed"
    /\ UNCHANGED <<cfg, disk, dirs, clock, inp, result, stdout, obs, host, peer>>

ParseNext == ExtractEntry \/ ExtractReturn \/ ReviewFiles

SpecParse == ParseInit /\ [][ParseNext]_vars

-----------------------------------------------------------------------------
(* TranscriptParserService.parse on a transcript file of up to MaxLines lines:
   inp holds the lines, result the analysis or the exception. *)

\* The lines of a transcript: empty, cut off in the middle of its JSON
\* ("garbage"), JSON that is not an object ("value", such as [] or 42), and
\* JSON objects: user and assistant messages, with and without a parent, whose
\* content is a string or a list of text, tool_use and tool_result blocks.
Lines ==
    {[kind |-> "blank"], [kind |-> "garbage"], [kind |-> "value"],
     [kind |-> "object", data |->
        [type |-> "user", parentUuid |-> Null,
         message |-> [role |-> "user",
                      content |-> [kind |-> "str", v |-> "Fix the bug"]]]],
     [kind |-> "object", data |->
        [type |-> "user",
         message |-> [role |-> "user",
                      content |-> [kind |-> "list",
                                   v |-> <<[type |-> "text", text |-> "Add tests"]>>]]]],
     [kind |-> "object", data |->
        [type |-> "user", parentUuid |-> Null,
         message |-> [role |-> "user",
                      content |-> [kind |-> "list", v |-> <<[type |-> "tool_result"]>>]]]],
     [kind |-> "object", data |->
        [type |-> "user", parentUuid |-> Some("u1"),
         message |-> [role |-> "user", content |-> [kind |-> "str", v |-> "Go on"]]]],
     [kind |-> "object", data |->
        [type |-> "assistant", parentUuid |-> Null,
         message |-> [role |-> "assistant",
                      content |-> [kind |-> "list",
                                   v |-> <<[type |-> "text", text |-> "I will"]>>]]]],
     [kind |-> "object", data |->
        [type |-> "assistant", parentUuid |-> Some("u1"),
         message |-> [role |-> "assistant",
                      content |-> [kind |-> "list",
                                   v |-> <<[type |-> "tool_use", id |-> 1, name |-> "Edit",
                                            input |-> [file_path |-> "app/Foo.php"]]>>]]]],
     [kind |-> "object", data |->
        [type |-> "user", parentUuid |-> Some("u1"), message |-> Null]],
     [kind |-> "object", data |->
        [type |-> "user", parentUuid |-> Null,
         message |-> [role |-> "user",
                      content |-> [kind |-> "list", v |-> <<[bare |-> "Fix it"]>>]]]]}

ReadInit ==
    /\ inp \in UNION {[1..n -> Lines] : n \in 0..MaxLines}
    /\ pc = "parsing"
    /\ loc = NoLoc
    /\ cfg \in {c \in Configs : c.max_review_cycles = 1 /\ c.skip_if_no_file_changes
                                 /\ c.agents_to_review # {}}
    /\ disk = NoFile
    /\ dirs = <<>>
    /\ clock = 0
    /\ result = NoResult
    /\ stdout = Null
    /\ obs = NoObs
    /\ host = [a \in AgentIds |-> [state |-> "new", blocks |-> 0, listed |-> "unset"]]
    /\ peer = NoPeer

\* parse(), lines 43-68
Parse ==
    /\ pc = "parsing"
    /\ result' = parse(inp)
    /\ pc' = IF parse(inp) = Null THEN "raised" ELSE "parsed"
    /\ UNCHANGED <<cfg, disk, dirs, clock, inp, loc, stdout, obs, host, peer>>

SpecRead == ReadInit /\ [][Parse]_vars

-----------------------------------------------------------------------------
(* ReviewerService.review with the code-reviewer it runs: inp holds the files,
   whether the tool exists, and what the reviewer's query will produce; loc
   what the client has done so far; result what review() returned. *)

Segments ==
    [name : {""}, value : {"Looks fine", " "}]
    \cup [name : {"decision"}, value : {"passed", "blocked", " blocked ", "maybe"}]
    \cup [name : {"DECISION"}, value : {"BLOCKED"}]
    \cup [name : {"decision"}, value : {"Passed"}]
    \cup [name : {"verdict"}, value : {"blocked"}]

ReviewerInit ==
    /\ inp \in [files : {<<>>, <<"app/Foo.php">>}, tool_exists : BOOLEAN,
                 text : UNION {[1..n -> Segments] : n \in 0..MaxSegments},
                 error : BOOLEAN]
    /\ pc = "called"
    /\ loc = [spawned |-> FALSE, code_result |-> Null, proc |-> Null]
    /\ cfg \in {c \in Configs : c.max_review_cycles = 1 /\ c.skip_if_no_file_changes
                                 /\ c.agents_to_review # {}}
    /\ disk = NoFile
    /\ dirs = <<>>
    /\ clock = 0
    /\ result = NoResult
    /\ stdout = Null
    /\ obs = NoObs
    /\ host = [a \in AgentIds |-> [state |-> "new", blocks |-> 0, listed |-> "unset"]]
    /\ peer = NoPeer

\* review(), lines 97-130: return at once, or start the reviewer
ClientCall ==
    /\ pc = "called"
    /\ IF spawns(inp.files, inp.tool_exists)
       THEN /\ pc' = "spawned"
            /\ loc' = [loc EXCEPT !.spawned = TRUE]
            /\ result' = result
       ELSE /\ pc' = "returned"
            /\ loc' = loc
            /\ result' = review(inp.files, inp.tool_exists, TimedOut)
    /\ UNCHANGED <<cfg, disk, dirs, clock, inp, stdout, obs, host, peer>>

\* the reviewer process: the query ends and cli.py prints the result
ReviewerRuns ==
    /\ pc = "spawned"
    /\ loc' = [loc EXCEPT !.code_result = Some(CodeReviewService_review(inp.text, inp.error)),
                          !.proc = Some(run_review(CodeReviewService_review(inp.text,
                                                                           inp.error)))]
    /\ pc' = "exited"
    /\ UNCHANGED <<cfg, disk, dirs, clock, inp, result, stdout, obs, host, peer>>

\* the reviewer process ends some other way: it crashes, prints something that
\* is not the result object, outlives the timeout or cannot be started
ReviewerFails ==
    /\ pc = "spawned"
    /\ \E proc \in (ProcOutcomes \ {PassedJson, BlockedJson})
                    \cup {[ArrayJson EXCEPT !.returncode = 1]} :
          loc' = [loc EXCEPT !.proc = Some(proc)]
    /\ pc' = "exited"
    /\ UNCHANGED <<cfg, disk, dirs, clock, inp, result, stdout, obs, host, peer>>

\* review(), lines 131-150
ClientReturn ==
    /\ pc = "exited"
    /\ result' = review(inp.files, inp.tool_exists, loc.proc[1])
    /\ pc' = "returned"
    /\ UNCHANGED <<cfg, disk, dirs, clock, inp, loc, stdout, obs, host, peer>>

SpecReviewer ==
    ReviewerInit /\ [][ClientCall \/ ReviewerRuns \/ ReviewerFails \/ ClientReturn]_vars

-----------------------------------------------------------------------------
(* SessionStorageService on its own: a caller issues the store's operations on
   one session id in any order.  inp holds the latest call, obs.pre the
   document before it.  Each operation begins with load_session, whose read
   may raise OSError (lines 105-110): readable says whether it did not. *)

StoreInit ==
    /\ cfg \in {c \in Configs : c.max_review_cycles = 1 /\ c.skip_if_no_file_changes
                                 /\ c.agents_to_review # {}}
    /\ disk = NoFile
    /\ dirs = <<>>
    /\ clock = 0
    /\ pc = "store"
    /\ inp = NoInput
    /\ loc = NoLoc
    /\ result = NoResult
    /\ stdout = Null
    /\ obs = NoObs
    /\ host = [a \in AgentIds |-> [state |-> "new", blocks |-> 0, listed |-> "unset"]]
    /\ peer = NoPeer

\* track_agent_start, lines 185-192
StoreStart ==
    /\ clock < MaxOps
    /\ \E a \in AgentIds, t \in AgentTypes, git \in GitInfos, readable \in BOOLEAN :
          LET view == IF readable THEN disk ELSE [disk EXCEPT !.state = "unreadable"]
              session == add_agent(get_or_create_session(view, SessionId, MainTranscript,
                                                         git, clock + 1),
                                   a, t, clock + 1)
          IN  /\ disk' = save_session(disk, session, "ok")
              /\ inp' = [hook_event_name |-> "none", op |-> "track_agent_start",
                         agent_id |-> a, readable |-> readable]
    /\ clock' = clock + 1
    /\ obs' = [NoObs EXCEPT !.pre = disk]
    /\ UNCHANGED <<cfg, dirs, pc, loc, result, stdout, host, peer>>

\* track_agent_stop, lines 220-226
StoreStop ==
    /\ clock < MaxOps
    /\ \E a \in AgentIds, readable \in BOOLEAN :
          LET view == IF readable THEN disk ELSE [disk EXCEPT !.state = "unreadable"]
              loaded == load_session(view)
          IN  /\ disk' = IF loaded # Null /\ a \in DOMAIN loaded[1].agents
                         THEN save_session(disk, end_agent(loaded[1], a, Some(TranscriptPath),
                                                           clock + 1), "ok")
                         ELSE disk
              /\ inp' = [hook_event_name |-> "none", op |-> "track_agent_stop",
                         agent_id |-> a, readable |-> readable]
    /\ clock' = clock + 1
    /\ obs' = [NoObs EXCEPT !.pre = disk]
    /\ UNCHANGED <<cfg, dirs, pc, loc, result, stdout, host, peer>>

\* start_agent_review, lines 268-275
StoreStartReview ==
    /\ clock < MaxOps
    /\ \E a \in AgentIds, readable \in BOOLEAN :
          LET view == IF readable THEN disk ELSE [disk EXCEPT !.state = "unreadable"]
              loaded == load_session(view)
          IN  /\ disk' = IF loaded # Null /\ a \in DOMAIN loaded[1].agents
                         THEN save_session(disk, Session_start_agent_review(loaded[1], a,
                                                                            clock + 1), "ok")
                         ELSE disk
              /\ inp' = [hook_event_name |-> "none", op |-> "start_agent_review",
                         agent_id |-> a, readable |-> readable]
    /\ clock' = clock + 1
    /\ obs' = [NoObs EXCEPT !.pre = disk]
    /\ UNCHANGED <<cfg, dirs, pc, loc, result, stdout, host, peer>>

\* end_agent_review, lines 299-313: saved when the agent has a review
StoreEndReview ==
    /\ clock < MaxOps
    /\ \E a \in AgentIds, passed \in BOOLEAN, readable \in BOOLEAN :
          LET view == IF readable THEN disk ELSE [disk EXCEPT !.state = "unreadable"]
              loaded == load_session(view)
          IN  /\ disk' = IF /\ loaded # Null
                            /\ a \in DOMAIN loaded[1].agents
                            /\ loaded[1].agents[a].reviews # <<>>
                         THEN save_session(disk, Session_end_agent_review(loaded[1], a, passed,
                                                     0, 0, Null, clock + 1), "ok")
                         ELSE disk
              /\ inp' = [hook_event_name |-> "none", op |-> "end_agent_review",
                         agent_id |-> a, readable |-> readable]
    /\ clock' = clock + 1
    /\ obs' = [NoObs EXCEPT !.pre = disk]
    /\ UNCHANGED <<cfg, dirs, pc, loc, result, stdout, host, peer>>

SpecStore ==
    StoreInit /\ [][StoreStart \/ StoreStop \/ StoreStartReview \/ StoreEndReview]_vars

-----------------------------------------------------------------------------
(* Properties *)

\* the agent records of a session document, none when it cannot be read
Agents(d) == IF load_session(d) = Null THEN <<>> ELSE load_session(d)[1].agents

\* the reviews the document holds for an agent
Reviews(d, a) == IF a \in DOMAIN Agents(d) THEN Agents(d)[a].reviews ELSE <<>>

\* the invocation in flight handles a stop event for agent a
Stopping(a) == pc # "idle" /\ is_stop_event(inp) /\ inp.agent_id = Some(a)

\* ... for an agent that was tracked, and of a reviewable type, when it arrived
StoppingReviewable(a) ==
    /\ Stopping(a)
    /\ a \in DOMAIN Agents(obs.pre)
    /\ should_review_agent(cfg, Agents(obs.pre)[a].agent_type)

\* the stop event in flight is a retry of an agent whose completed reviews had
\* reached max_review_cycles when it arrived
AtCeiling(a) ==
    /\ StoppingReviewable(a)
    /\ inp.stop_hook_active
    /\ CountCompleted(Reviews(obs.pre, a)) >= cfg.max_review_cycles

\* C1: a stop event with stop_hook_active true, for a tracked agent of a
\* reviewable type whose completed-review count is at least max_review_cycles,
\* is answered allow with nothing printed, the reviewer is neither called nor
\* started, and no AgentReview is added to the agent's list.
C1_RetryCeiling ==
    \A a \in AgentIds :
        AtCeiling(a) =>
            /\ pc = "done"
            /\ result.decision = "allow"
            /\ stdout = Null
            /\ ~obs.reviewed /\ ~obs.spawned
            /\ Len(Reviews(disk, a)) <= Len(Reviews(obs.pre, a))
            /\ disk.state = "ok" => Reviews(disk, a) = Reviews(obs.pre, a)

\* a retry stop has been answered for an agent that had used up its cycles
C1_Witness ==
    \E a \in AgentIds :
        /\ AtCeiling(a)
        /\ pc = "done"
        /\ ~obs.raised
        /\ result = allow(<<"Max review cycles reached">>)
        /\ Len(Reviews(disk, a)) = cfg.max_review_cycles

\* C2: under the host's protocol a reviewable agent is blocked at most
\* max_review_cycles times, and every block is followed by the agent being
\* allowed to finish: the (N+1)-th stop event of one attempt is always allowed.
C2_Termination ==
    /\ [](\A a \in HostAgents : host[a].blocks <= cfg.max_review_cycles)
    /\ \A a \in HostAgents : (host[a].state = "blocked") ~> (host[a].state = "finished")

\* an agent was blocked max_review_cycles times, more than once, and then
\* allowed to finish
C2_Witness ==
    \E a \in HostAgents :
        /\ host[a].state = "finished"
        /\ host[a].blocks = cfg.max_review_cycles
        /\ host[a].blocks > 1

\* the invocation in flight handled a start event that names agent a and a type
Starting(a) ==
    /\ pc = "done"
    /\ is_start_event(inp)
    /\ inp.agent_id = Some(a)
    /\ inp.agent_type # Null

\* C3: a start event for an agent_id the session already tracks leaves that
\* agent's record as it was (type, start time, end time, transcript path and
\* review list), also when the event carries another agent_type; the document
\* is written back whenever its write does not fail.
C3_IdempotentStart ==
    \A a \in AgentIds :
        (Starting(a) /\ a \in DOMAIN Agents(obs.pre)) =>
            /\ disk.state = "ok" => (a \in DOMAIN Agents(disk)
                                     /\ Agents(disk)[a] = Agents(obs.pre)[a])
            /\ obs.fault # "track_agent_start" => disk.state = "ok"

\* a second start with another agent_type arrived for an agent that already
\* had a review on record
C3_Witness ==
    \E a \in AgentIds :
        /\ Starting(a)
        /\ a \in DOMAIN Agents(obs.pre)
        /\ inp.agent_type[1] # Agents(obs.pre)[a].agent_type
        /\ Reviews(obs.pre, a) # <<>>
        /\ disk.state = "ok"
        /\ ~obs.raised

\* the reviewer process ran to its end and its structured output reports issues
ReportsIssues(p) ==
    /\ p.how = "completed"
    /\ p.json = "object"
    /\ ~Get(p.obj, "passed", TRUE)

\* C4: a block is returned only for a stop event of a tracked agent of a
\* reviewable type on which the reviewer ran and explicitly reported blocking
\* issues; start events, other events and every exit before the reviewer is
\* called are answered allow.
C4_BlockOnlyOnIssues ==
    pc = "done" =>
        /\ result.should_block =>
              /\ \E a \in AgentIds : StoppingReviewable(a)
              /\ obs.reviewed
              /\ obs.proc # Null
              /\ ReportsIssues(obs.proc[1])
        /\ (~is_stop_event(inp) \/ ~obs.reviewed) =>
              (result.decision = "allow" /\ stdout = Null)

\* the reviewer could not do its work: timeout, failure to start, a crash or
\* output that is not the expected JSON object, or no executable to run
ProcessFailed(p) == p.how \in {"timeout", "oserror"} \/ p.json # "object"

InfrastructureFailure ==
    /\ obs.reviewed
    /\ \/ loc.files # <<>> /\ ~obs.spawned
       \/ obs.proc # Null /\ ProcessFailed(obs.proc[1])

\* C5: when the reviewer fails for an infrastructure reason (timeout, crash,
\* missing executable, malformed output) the review client returns a passed
\* verdict whose feedback gives the reason, and the invocation returns allow.
C5_InfraFailOpen ==
    (pc \in {"finishing", "done"} /\ InfrastructureFailure) =>
        /\ obs.verdict # Null
        /\ obs.verdict[1].passed
        /\ obs.verdict[1].feedback # <<>>
        /\ pc = "done" => result.decision = "allow"

\* the calls of a stop event that write the session document
SavePoints == {"track_agent_stop", "start_agent_review", "end_agent_review"}

\* C6: a failed write of the session document during a stop event does not
\* change the decision: the invocation returns the decision of the reviewer's
\* verdict, and block with the verdict's feedback when the verdict is blocked.
C6_PersistenceFailureLogged ==
    (pc = "done" /\ is_stop_event(inp) /\ obs.fault \in SavePoints /\ obs.verdict # Null) =>
        /\ result.should_block = ~obs.verdict[1].passed
        /\ ~obs.verdict[1].passed =>
              stdout = Some([decision |-> "block", reason |-> obs.verdict[1].feedback])

RECURSIVE CountInProgress(_)
CountInProgress(rs) ==
    IF rs = <<>> THEN 0
    ELSE (IF is_in_progress(Head(rs)) THEN 1 ELSE 0) + CountInProgress(Tail(rs))

\* C7: in the persisted document every agent has at most one AgentReview
\* whose ended_at is null, whatever way the invocations ended.
C7_OneInProgress ==
    \A a \in DOMAIN Agents(disk) : CountInProgress(Reviews(disk, a)) <= 1

\* the stop event in flight returned before the reviewer for a reason read
\* from the transcript
NothingToReview ==
    result.reason \in {<<"Agent transcript not found">>, <<"No file changes">>}

\* C8: whether a stop event leads to a review is decided by the configuration
\* at the stop event alone.  An agent whose type was not in agents_to_review
\* at its start event, and whose stop event meets every condition for a review
\* under the configuration then in force, is reviewed.
C8_StopTimeConfig ==
    \A a \in HostAgents :
        (/\ pc = "done"
         /\ StoppingReviewable(a)
         /\ ~AtCeiling(a)
         /\ ~NothingToReview
         /\ obs.fault = "none"
         /\ host[a].listed = "no") => obs.reviewed

C10_ReviewRecorded ==
    \A a \in AgentIds :
        (pc = "done" /\ Stopping(a) /\ obs.verdict # Null) =>
            LET before == Reviews(obs.pre, a)
                after == Reviews(disk, a)
                v == obs.verdict[1]
            IN  /\ Len(after) = Len(before) + 1
                /\ SubSeq(after, 1, Len(before)) = before
                /\ is_completed(after[Len(after)])
                /\ after[Len(after)].decision = Some(v.passed)
                /\ after[Len(after)].input_tokens = v.input_tokens
                /\ after[Len(after)].output_tokens = v.output_tokens
                /\ after[Len(after)].total_cost_usd = v.total_cost_usd

\* the stop event in flight has no transcript to read: no path in the input,
\* or no file at the path
TranscriptMissing ==
    /\ obs.tr # Null
    /\ (inp.agent_transcript_path = Null \/ ~obs.tr[1].exists)

\* C11: a stop event for a tracked agent of a reviewable type whose
\* agent_transcript_path is absent from the input or names no file is answered
\* allow, by a return and not by an exception unless a write failed; the
\* reviewer is not called and no AgentReview is added.
C11_MissingTranscript ==
    \A a \in AgentIds :
        (StoppingReviewable(a) /\ TranscriptMissing) =>
            /\ pc = "done"
            /\ result.decision = "allow"
            /\ stdout = Null
            /\ obs.fault = "none" => ~obs.raised
            /\ ~obs.reviewed /\ ~obs.spawned
            /\ Len(Reviews(disk, a)) <= Len(Reviews(obs.pre, a))
            /\ disk.state = "ok" => Reviews(disk, a) = Reviews(obs.pre, a)

\* a stop event naming a transcript that is not on disk got past the type
\* check and the ceiling and was answered by the transcript branch
C11_Witness ==
    \E a \in AgentIds :
        /\ StoppingReviewable(a)
        /\ inp.agent_transcript_path # Null
        /\ ~obs.tr[1].exists
        /\ result = allow(<<"Agent transcript not found">>)

\* the stop event in flight is for a tracked agent whose recorded type is not
\* in agents_to_review
StoppingUnlisted(a) ==
    /\ Stopping(a)
    /\ a \in DOMAIN Agents(obs.pre)
    /\ Agents(obs.pre)[a].agent_type \notin cfg.agents_to_review

\* C12: a stop event for an agent whose recorded agent_type is not in
\* agents_to_review is answered allow with nothing printed, the reviewer is not
\* called and no AgentReview is added, whatever the transcript holds and
\* whatever stop_hook_active is.
C12_UnreviewedType ==
    \A a \in AgentIds :
        StoppingUnlisted(a) =>
            /\ pc = "done"
            /\ result.decision = "allow"
            /\ stdout = Null
            /\ ~obs.reviewed /\ ~obs.spawned
            /\ Len(Reviews(disk, a)) <= Len(Reviews(obs.pre, a))
            /\ disk.state = "ok" => Reviews(disk, a) = Reviews(obs.pre, a)

\* a retry stop of an unlisted agent with file changes in its transcript
C12_Witness ==
    \E a \in AgentIds :
        /\ StoppingUnlisted(a)
        /\ inp.stop_hook_active
        /\ obs.tr[1].files # <<>>
        /\ result = allow(<<"Agent type not configured for review">>)

\* C13: a stop event for an agent the store does not hold (no readable
\* session document, or no record of the agent in it) returns through the
\* not-tracked branch without raising, is answered allow with nothing printed,
\* and leaves the session document as it was: none created, none rewritten.
C13_UntrackedAgent ==
    \A a \in AgentIds :
        (Stopping(a) /\ a \notin DOMAIN Agents(obs.pre)) =>
            /\ pc = "done"
            /\ ~obs.raised
            /\ result = allow(<<"Agent not tracked">>)
            /\ stdout = Null
            /\ ~obs.reviewed /\ ~obs.spawned
            /\ disk = obs.pre

\* a stop event for an agent missing from a document that holds another agent
C13_Witness ==
    \E a \in AgentIds :
        /\ Stopping(a)
        /\ a \notin DOMAIN Agents(obs.pre)
        /\ Agents(obs.pre) # <<>>
        /\ pc = "done"
        /\ disk = obs.pre

\* C14: an exception raised while a start or stop event is handled (session
\* store call, directory creation, transcript parsing, review log, reviewer
\* call, audit records) ends the invocation with allow and nothing printed.
C14_InternalFaultAllows ==
    obs.raised =>
        /\ pc = "done"
        /\ result.decision = "allow"
        /\ ~result.should_block
        /\ stdout = Null

\* the audit records could not be written after the reviewer had returned a
\* blocked verdict
C14_Witness ==
    /\ obs.raised
    /\ obs.fault = "audit"
    /\ obs.verdict # Null
    /\ ~obs.verdict[1].passed
    /\ is_stop_event(inp)

\* the positions of a review list whose review has ended_at set
Ended(rs) == {i \in DOMAIN rs : rs[i].ended_at # Null}

\* C15: get_agent_review_count gives the number of the agent's reviews whose
\* ended_at is set, and 0 for an unknown session or agent; a review started
\* and not ended does not count, so a retry stop is not stopped by the
\* ceiling while the ended reviews are fewer than max_review_cycles.
C15_CompletedCount ==
    \A a \in AgentIds :
        /\ get_agent_review_count(disk, a) = Cardinality(Ended(Reviews(disk, a)))
        /\ a \notin DOMAIN Agents(disk) => get_agent_review_count(disk, a) = 0
        /\ (/\ pc = "done"
            /\ StoppingReviewable(a)
            /\ Cardinality(Ended(Reviews(obs.pre, a))) < cfg.max_review_cycles)
           => result.reason # <<"Max review cycles reached">>

\* a retry stop arrived for an agent whose only review was started and never
\* ended, with max_review_cycles 1, and went on to the reviewer
C15_Witness ==
    \E a \in AgentIds :
        /\ StoppingReviewable(a)
        /\ inp.stop_hook_active
        /\ Len(Reviews(obs.pre, a)) = cfg.max_review_cycles
        /\ get_agent_review_count(obs.pre, a) = 0
        /\ obs.reviewed

\* the stop event in flight found a transcript that parses and holds no file
\* change
NoFileChanges ==
    /\ obs.tr # Null
    /\ inp.agent_transcript_path # Null
    /\ obs.tr[1].exists /\ obs.tr[1].parses
    /\ obs.tr[1].files = <<>>

\* C16: for a reviewable agent whose transcript has no file changes, the stop
\* event is allowed without a review when skip_if_no_file_changes is true, and
\* goes on to a review when it is false.
C16_SkipSetting ==
    \A a \in AgentIds :
        (/\ pc = "done"
         /\ StoppingReviewable(a)
         /\ ~AtCeiling(a)
         /\ NoFileChanges
         /\ obs.fault = "none") =>
            IF cfg.skip_if_no_file_changes
            THEN result.decision = "allow" /\ ~obs.reviewed
            ELSE obs.reviewed

\* the invocation in flight has called load_session: a start event with
\* agent_id and agent_type, or a stop event with agent_id
LoadsSession ==
    /\ inp.agent_id # Null
    /\ \/ is_start_event(inp) /\ inp.agent_type # Null
       \/ is_stop_event(inp)

\* C17: a process that loads the session document while another process is
\* saving it gets the complete old document or the complete new one, never an
\* emptied or partly written file.
C17_AtomicRewrite ==
    (pc # "idle" /\ LoadsSession /\ obs.peer.pc = "opened") =>
        load_session(obs.pre) \in {load_session(obs.peer.old), obs.peer.session}

\* the host has had the start event of agent a handled, and the document the
\* stop event in flight loaded has no record of a
StartRecordLost(a) ==
    /\ Stopping(a)
    /\ host[a].state # "new"
    /\ a \notin DOMAIN Agents(obs.pre)

\* C18: when the start record of an agent has been lost to the write of
\* another process, the stop event of that agent takes the not-tracked branch:
\* it is answered allow with nothing printed, without raising and without a
\* review.
C18_LostStartUntracked ==
    \A a \in HostAgents :
        StartRecordLost(a) =>
            /\ pc = "done"
            /\ ~obs.raised
            /\ result = allow(<<"Agent not tracked">>)
            /\ stdout = Null
            /\ ~obs.reviewed /\ ~obs.spawned

\* the other process loaded the document before the agent's start was
\* written and saved its own copy after it: the document is complete, holds
\* the other process's agent and not this one
C18_Witness ==
    \E a \in HostAgents :
        /\ StartRecordLost(a)
        /\ obs.pre.state = "ok"
        /\ PeerAgent \in DOMAIN Agents(obs.pre)
        /\ obs.tr[1].files # <<>>
        /\ pc = "done"

\* The sessions the store operations hold in memory: the one loaded from the
\* document, the one the second process is about to save, and what each
\* operation makes of them.
HeldSessions ==
    (IF load_session(disk) = Null THEN {} ELSE {load_session(disk)[1]})
    \cup (IF load_session(obs.pre) = Null THEN {} ELSE {load_session(obs.pre)[1]})
    \cup (IF peer.session = Null THEN {} ELSE {peer.session[1]})

BuiltSessions ==
    HeldSessions
    \cup {add_agent(s, a, t, clock) : s \in HeldSessions, a \in AgentIds, t \in AgentTypes}
    \cup {end_agent(s, a, Some(TranscriptPath), clock) : s \in HeldSessions, a \in AgentIds}
    \cup {Session_start_agent_review(s, a, clock) : s \in HeldSessions, a \in AgentIds}
    \cup {Session_end_agent_review(s, a, b, 0, 0, Null, clock) :
              s \in HeldSessions, a \in AgentIds, b \in BOOLEAN}

\* C19: every session built by the store operations is read back from its
\* dictionary unchanged: the same session fields, the same agents under the
\* same ids, the same reviews in the same order.
C19_RoundTrip ==
    \A s \in BuiltSessions : Session_from_dict(Session_to_dict(s)) = s

\* a session with git information whose agent holds a completed review
\* followed by one still in progress
C19_Witness ==
    \E s \in HeldSessions : \E a \in DOMAIN s.agents :
        /\ s.git_branch # Null
        /\ Len(s.agents[a].reviews) = 2
        /\ is_completed(s.agents[a].reviews[1])
        /\ is_in_progress(s.agents[a].reviews[2])
        /\ s.agents[a].ended_at # Null
        /\ Session_from_dict(Session_to_dict(s)) = s

\* the tool calls of a transcript in order
RECURSIVE ToolCallsOf(_)
ToolCallsOf(entries) ==
    IF entries = <<>> THEN <<>>
    ELSE Head(entries).tool_calls \o ToolCallsOf(Tail(entries))

\* the file-modifying tool calls that name a path, in order
Touching(entries) ==
    SelectSeq(ToolCallsOf(entries),
              LAMBDA tc : /\ tc.name \in FILE_MODIFYING_TOOLS
                          /\ ToolCall_file_path(tc) # Null
                          /\ ToolCall_file_path(tc)[1] # "")

\* the position in Touching of the first tool call on path p
FirstOn(entries, p) ==
    CHOOSE i \in DOMAIN Touching(entries) :
        /\ ToolCall_file_path(Touching(entries)[i])[1] = p
        /\ \A j \in 1..(i - 1) : ToolCall_file_path(Touching(entries)[j])[1] # p

\* C20: file_changes holds one entry for each distinct path named by a
\* file-modifying tool call and no other, in the order of the paths' first
\* tool calls, each with the action, tool name, id and input of the first tool
\* call on its path; the reviewer is handed each of these paths once, in the
\* same order.
C20_DedupFirstWins ==
    (pc \in {"extracted", "handed"}) =>
        LET calls == Touching(inp)
        IN  /\ {result[i].path : i \in DOMAIN result}
                  = {ToolCall_file_path(calls[i])[1] : i \in DOMAIN calls}
            /\ \A i, j \in DOMAIN result :
                  i < j => FirstOn(inp, result[i].path) < FirstOn(inp, result[j].path)
            /\ \A i \in DOMAIN result :
                  LET first == calls[FirstOn(inp, result[i].path)]
                  IN  /\ result[i].tool_name = first.name
                      /\ result[i].tool_call_id = first.id
                      /\ result[i].tool_input = first.input
                      /\ result[i].action = determine_action(first.name)
            /\ pc = "handed" =>
                  loc.file_paths = [i \in DOMAIN result |-> result[i].path]

\* one path touched three times under three tool names, the first a Write
C20_Witness ==
    /\ pc = "handed"
    /\ Len(Touching(inp)) = 3
    /\ \A i \in 1..3 : ToolCall_file_path(Touching(inp)[i])[1] = "app/Foo.php"
    /\ \A i, j \in 1..3 : i # j => Touching(inp)[i].name # Touching(inp)[j].name
    /\ Touching(inp)[1].name = "Write"
    /\ Len(result) = 1
    /\ result[1].action = "created"
    /\ loc.file_paths = <<"app/Foo.php">>

\* the lines json.loads accepts
Parsable(lines) == SelectSeq(lines, LAMBDA l : l.kind \in {"value", "object"})

\* C21: parse of an existing transcript returns an analysis whatever its
\* lines are, and the analysis is that of the transcript without the lines
\* that are not JSON.
C21_MalformedLinesSkipped ==
    (pc \in {"parsed", "raised"}) =>
        /\ pc = "parsed"
        /\ result = parse(Parsable(inp))

\* C22: the analysis's initial prompt is the text of the first user entry
\* without a parent, in file order, and the empty string when there is no such
\* entry or that entry has no text.
C22_InitialPrompt ==
    (pc = "parsed") =>
        LET es == result[1].entries
            root(i) == es[i].entry_type = "user" /\ es[i].parent_uuid = Null
            texts(i) == {k \in DOMAIN es[i].message_content :
                            Get(es[i].message_content[k], "type", "") = "text"}
        IN  /\ (\A i \in DOMAIN es : ~root(i)) => result[1].initial_prompt = ""
            /\ \A i \in DOMAIN es :
                  (root(i) /\ \A j \in 1..(i - 1) : ~root(j)) =>
                      /\ texts(i) = {} => result[1].initial_prompt = ""
                      /\ \A k \in texts(i) :
                            (\A m \in texts(i) : k <= m) =>
                                result[1].initial_prompt = es[i].message_content[k].text

\* a non-root user message with text comes before the root user message
C22_Witness ==
    /\ pc = "parsed"
    /\ Len(result[1].entries) >= 2
    /\ result[1].entries[1].entry_type = "user"
    /\ result[1].entries[1].parent_uuid # Null
    /\ result[1].entries[2].entry_type = "user"
    /\ result[1].entries[2].parent_uuid = Null
    /\ result[1].initial_prompt = "Add tests"

\* C23: with no files the client returns passed with empty feedback, and with
\* files but no reviewer executable it returns passed with a note; in neither
\* case is the reviewer process started.
C23_ShortCircuit ==
    (pc # "called") =>
        /\ inp.files = <<>> =>
              /\ pc = "returned" /\ ~loc.spawned
              /\ ~result.raised
              /\ result.value[1].passed /\ result.value[1].feedback = <<>>
        /\ (inp.files # <<>> /\ ~inp.tool_exists) =>
              /\ pc = "returned" /\ ~loc.spawned
              /\ ~result.raised
              /\ result.value[1].passed /\ result.value[1].feedback # <<>>

\* no files are given although the reviewer executable is there
C23_Witness ==
    /\ pc = "returned"
    /\ inp.files = <<>> /\ inp.tool_exists
    /\ ~loc.spawned
    /\ result.value[1].passed

\* C25: when the reviewer ran to its end and its standard output is not the
\* expected result object, the client's verdict follows the exit code: passed
\* with empty feedback for zero; blocked for nonzero, with the standard error
\* text as feedback, or the standard output text when there is none.
C25_ExitCodeFallback ==
    (pc = "returned" /\ loc.proc # Null /\ loc.proc[1].how = "completed"
        /\ loc.proc[1].json # "object") =>
        /\ ~result.raised
        /\ loc.proc[1].returncode = 0 =>
              result.value[1].passed /\ result.value[1].feedback = <<>>
        /\ loc.proc[1].returncode # 0 =>
              /\ ~result.value[1].passed
              /\ loc.proc[1].stderr # <<>> => result.value[1].feedback = loc.proc[1].stderr
              /\ (loc.proc[1].stderr = <<>> /\ loc.proc[1].stdout # <<>>) =>
                    result.value[1].feedback = loc.proc[1].stdout

\* the element of the reviewer's text that decides: the first <decision>
\* element, in any case, holding passed or blocked
Decisive(text, i) ==
    LET tag(k) == /\ text[k].name \in {"decision", "DECISION"}
                  /\ text[k].value \in {"passed", "Passed", "blocked", "BLOCKED", " blocked "}
    IN  tag(i) /\ \A j \in 1..(i - 1) : ~tag(j)

\* C26: the code reviewer reports issues exactly when its query did not fail
\* and the first decision tag of its text says blocked, in any case; a passed
\* tag first, no decision tag, empty text and a failed query all give passed.
C26_DefaultAllow ==
    (loc.code_result # Null) =>
        (loc.code_result[1].has_issues <=>
            /\ ~inp.error
            /\ \E i \in DOMAIN inp.text :
                  /\ Decisive(inp.text, i)
                  /\ inp.text[i].value \in {"blocked", "BLOCKED", " blocked "})

\* a passed tag followed by a blocked tag: the first decides, and the client
\* reads the verdict passed from the reviewer's output
C26_Witness ==
    /\ pc = "returned"
    /\ loc.code_result # Null
    /\ ~inp.error
    /\ Len(inp.text) = 2
    /\ inp.text[1] = [name |-> "decision", value |-> "Passed"]
    /\ inp.text[2] = [name |-> "decision", value |-> "blocked"]
    /\ ~loc.code_result[1].has_issues
    /\ result.value[1].passed

\* C24: when the reviewer outlives the timeout, the client's verdict is passed
\* with a note, the invocation ends in allow with nothing printed, and the
\* invocation does not come back to the reviewer: the process reaches the call
\* of the reviewer only from the start of an invocation.
C24_TimeoutFailsOpen ==
    /\ [](obs.proc = Some(TimedOut) /\ pc \in {"finishing", "done"} =>
            /\ obs.spawned
            /\ obs.verdict # Null
            /\ obs.verdict[1].passed
            /\ obs.verdict[1].feedback # <<>>
            /\ pc = "done" => result.decision = "allow" /\ stdout = Null)
    /\ [][obs.proc = Some(TimedOut) /\ pc' = "reviewing" => pc = "idle"]_vars
    /\ [][pc = "reviewing" /\ obs'.proc = Some(TimedOut) => pc' = "finishing"]_vars

\* a stop event whose reviewer timed out has ended without any I/O failure
C24_Witness ==
    /\ pc = "done"
    /\ is_stop_event(inp)
    /\ obs.proc = Some(TimedOut)
    /\ obs.fault = "none"
    /\ result.decision = "allow"

\* C27: whatever the input, the process exits with code 0; a block result
\* prints the {decision, reason} payload and an allow result prints nothing.
C27_ExitCodeSuccess ==
    (pc = "done") =>
        /\ obs.exit = Some(0)
        /\ result.should_block <=> stdout # Null
        /\ result.should_block =>
              stdout = Some([decision |-> "block", reason |-> result.reason])

\* an event that lacks a field its handler needs, or names no known event
InputError(input) ==
    \/ input.hook_event_name = "SubagentStart"
          /\ (input.agent_id = Null \/ input.agent_type = Null)
    \/ input.hook_event_name = "SubagentStop" /\ input.agent_id = Null
    \/ input.hook_event_name \notin {"SubagentStart", "SubagentStop"}

\* C28: an invocation on a start event without agent_id or agent_type, a stop
\* event without agent_id, or an event of unknown name ends at once in allow,
\* prints nothing, raises nothing, and leaves the session document and the
\* agent directories as they were.
C28_InputErrorsAllow ==
    [][(pc = "idle" /\ pc' # "idle" /\ InputError(inp')) =>
          /\ pc' = "done"
          /\ result'.decision = "allow" /\ ~result'.should_block
          /\ stdout' = Null
          /\ ~obs'.raised
          /\ disk' = disk /\ dirs' = dirs]_vars

\* a stop event without agent_id arrives when the session document holds agents
C28_Witness ==
    /\ pc = "done"
    /\ inp.hook_event_name = "SubagentStop" /\ inp.agent_id = Null
    /\ disk.state = "ok"
    /\ disk = obs.pre
    /\ result.decision = "allow"

\* C29: during an invocation the document holds, for each agent, at most one
\* review more than when the invocation began, and none more unless the
\* invocation handles a stop event of that agent; a start event never reaches
\* the reviewer; the call of the reviewer is reached only from the start of an
\* invocation on a stop event and is left by the one call made there.
C29_OneCyclePerInvocation ==
    /\ [](pc # "idle" =>
            \A a \in AgentIds :
                /\ Len(Reviews(disk, a)) <= Len(Reviews(obs.pre, a)) + 1
                /\ ~Stopping(a) => Len(Reviews(disk, a)) <= Len(Reviews(obs.pre, a)))
    /\ [](pc # "idle" /\ ~is_stop_event(inp) =>
            /\ pc = "done"
            /\ ~obs.reviewed /\ ~obs.spawned)
    /\ [][pc' = "reviewing" => (pc = "idle" /\ is_stop_event(inp'))]_vars
    /\ [][pc = "reviewing" => pc' # "reviewing"]_vars
    /\ [][(obs.reviewed /\ pc' # "idle") =>
            (obs'.proc = obs.proc /\ obs'.spawned = obs.spawned)]_vars

\* a stop event has been through one review: one review more in the document,
\* one run of the reviewer
C29_Witness ==
    \E a \in AgentIds :
        /\ pc = "done"
        /\ Stopping(a)
        /\ obs.spawned
        /\ obs.fault = "none"
        /\ Len(Reviews(obs.pre, a)) = 1
        /\ Len(Reviews(disk, a)) = 2

C31_StopFrame ==
    [][\A a \in AgentIds :
          (/\ pc = "idle" /\ pc' # "idle"
           /\ is_stop_event(inp') /\ inp'.agent_id = Some(a)
           /\ a \in DOMAIN Agents(disk)
           /\ disk'.state = "ok") =>
             LET before == Agents(disk)
                 after == Agents(disk')
             IN  /\ DOMAIN after = DOMAIN before
                 /\ \A b \in DOMAIN before \ {a} : after[b] = before[b]
                 /\ [disk'.doc[1] EXCEPT !.agents = <<>>]
                       = [disk.doc[1] EXCEPT !.agents = <<>>]
                 /\ after[a].agent_type = before[a].agent_type
                 /\ after[a].started_at = before[a].started_at
                 /\ after[a].reviews =
                       IF pc' = "reviewing"
                       THEN Append(before[a].reviews, AgentReview(clock'))
                       ELSE before[a].reviews
                 /\ obs'.fault # "track_agent_stop" =>
                       /\ after[a].ended_at = Some(clock')
                       /\ after[a].transcript_path = inp'.agent_transcript_path]_vars

\* a retry stop was recorded for an agent that had ended before and had a
\* review on record
C31_Witness ==
    \E a \in AgentIds :
        /\ pc = "done" /\ Stopping(a) /\ inp.stop_hook_active
        /\ a \in DOMAIN Agents(obs.pre)
        /\ Agents(obs.pre)[a].ended_at # Null
        /\ Reviews(obs.pre, a) # <<>>
        /\ disk.state = "ok"
        /\ Agents(disk)[a].ended_at = Some(clock)
        /\ Agents(disk)[a].ended_at # Agents(obs.pre)[a].ended_at
        /\ Reviews(disk, a) = Reviews(obs.pre, a)

\* C32: when an invocation on a stop event has ended and the readable document
\* holds more reviews for the agent than when the invocation began, the review
\* it appended has ended_at set.
C32_StartedReviewFinalized ==
    \A a \in AgentIds :
        (/\ pc = "done" /\ Stopping(a)
         /\ disk.state = "ok"
         /\ Len(Reviews(disk, a)) > Len(Reviews(obs.pre, a))) =>
            is_completed(Reviews(disk, a)[Len(Reviews(disk, a))])

\* C33: no operation of the store changes a review that has ended_at set: a
\* review that is completed in the document before an operation, and that the
\* agent's list still holds after it, is the same record after it (decision,
\* ended_at and usage included).
C33_CompletedReviewImmutable ==
    [][\A a \in AgentIds :
          \A i \in 1..Len(Reviews(disk, a)) :
              (is_completed(Reviews(disk, a)[i]) /\ i <= Len(Reviews(disk', a))) =>
                  Reviews(disk', a)[i] = Reviews(disk, a)[i]]_vars

\* C34: no operation of the store removes an agent from the session document or
\* a review from an agent's list: every agent the document holds before an
\* operation is held after it, with a review list at least as long, also when
\* the operation's read of the document fails.
C34_SessionOnlyGrows ==
    [][\A a \in DOMAIN Agents(disk) :
          /\ a \in DOMAIN Agents(disk')
          /\ Len(Reviews(disk', a)) >= Len(Reviews(disk, a))]_vars

\* C35: when the invocations of both processes have finished and the document
\* is readable, the agent whose start event the first process handled is in
\* the document, and its list holds at least as many completed reviews as the
\* blocks its host was given, as it would after the invocations run one after
\* the other.
C35_NoInterference ==
    \A a \in HostAgents :
        (/\ pc = "idle" /\ peer.pc = "idle"
         /\ disk.state = "ok"
         /\ host[a].state # "new") =>
            /\ a \in DOMAIN Agents(disk)
            /\ CountCompleted(Reviews(disk, a)) >= host[a].blocks

\* C36: the session document never holds more AgentReview records for an agent
\* than max_review_cycles, whatever stop events arrive and whatever their
\* stop_hook_active flags are.
C36_ReviewCountBounded ==
    \A a \in AgentIds : Len(Reviews(disk, a)) <= cfg.max_review_cycles

\* C37: while the session document is readable, the directory created for an
\* agent holds as many review directories as the agent's list holds
\* AgentReview records, an agent without a directory has no reviews, and the
\* review number an invocation took for its review directory is the position
\* of the review it appended.
C37_AuditLinesUp ==
    disk.state = "ok" =>
        /\ \A d \in DOMAIN dirs : dirs[d] = Len(Reviews(disk, d.agent_id))
        /\ \A a \in AgentIds :
              (\A d \in DOMAIN dirs : d.agent_id # a) => Reviews(disk, a) = <<>>
        /\ pc = "reviewing" => loc.review_number = Len(Reviews(disk, loc.agent_id))

\* C38: an invocation on an event for agent id a leaves every directory that
\* was created for another agent id as it was: it adds no review directory to
\* it, also when a is a hyphen-delimited suffix of the other id.
C38_IsolatedById ==
    [][\A a \in AgentIds :
          (pc = "idle" /\ pc' # "idle" /\ inp'.agent_id = Some(a)) =>
              \A d \in DOMAIN dirs :
                  d.agent_id # a => (d \in DOMAIN dirs' /\ dirs'[d] = dirs[d])]_vars

====
